---- MODULE Spec2Model ----
(***************************************************************************)
(* A model of the record store of src/app.py: five SQLite tables, the      *)
(* generic insert / fetch-all / delete-all helpers built on execute_query, *)
(* and the Streamlit pages that call them.                                 *)
(*                                                                         *)
(* The database engine is modelled by what SQLite does for the statements  *)
(* the program sends: case-insensitive table names, column affinity, NULL  *)
(* for columns an INSERT does not name, a uniqueness check on non-NULL     *)
(* primary keys, foreign keys that are parsed but not enforced, and the    *)
(* write lock a connection keeps while its transaction stays open.         *)
(***************************************************************************)
EXTENDS Integers, Sequences, FiniteSets, TLC

VARIABLES
    tables,   \* the tables that exist in the database file
    rows,     \* rows[t]: the rows of table t, in rowid order
    locked,   \* a connection left open holds the file's write lock
    last,     \* the last call: what was asked and how it ended
    form      \* the Input Forms page of one session, between render and save

vars == <<tables, rows, locked, last, form>>

\* ------------------------------------------------------------------ bounds
\* The most rows the whole store holds.
MaxRows == 2

\* ------------------------------------------------------------------ values
\* A Python / SQLite value: its storage class and its text.
NULL == [ty |-> "null", v |-> ""]
PyStr(s) == [ty |-> "text", v |-> s]
PyFloat(s) == [ty |-> "real", v |-> s]
PyInt(s) == [ty |-> "int", v |-> s]

\* ------------------------------------------------------------------ schema
TableNames == {"Leads", "Projects", "DailyUpdates", "Equipment", "Vendors"}

\* The order in which initialize_db's dict, and data_management's list, name them.
TableOrder == <<"Leads", "Projects", "DailyUpdates", "Equipment", "Vendors">>

Columns(t) ==
    CASE t = "Leads" ->
           <<"LeadID", "LeadSource", "ReferralSource", "LeadCost", "ReceivedDate", "Status">>
      [] t = "Projects" ->
           <<"ProjectID", "LeadID", "ProjectType", "StartDate", "ContractValue">>
      [] t = "DailyUpdates" ->
           <<"UpdateID", "ProjectID", "Date", "HoursWorked", "MaterialCosts">>
      [] t = "Equipment" ->
           <<"EquipmentID", "Type", "PurchaseDate", "CurrentStatus">>
      [] t = "Vendors" ->
           <<"VendorID", "Name", "ServiceType", "RateStructure">>

ColumnSet(t) == {Columns(t)[i] : i \in 1..Len(Columns(t))}

\* The column declared PRIMARY KEY: the first of each table.
PrimaryKey(t) == Columns(t)[1]

\* Columns declared REAL; every other column is TEXT.
RealColumns == {"LeadCost", "ContractValue", "HoursWorked", "MaterialCosts"}

Affinity(col) == IF col \in RealColumns THEN "REAL" ELSE "TEXT"

\* FOREIGN KEY (child column) REFERENCES parent(parent key).
ForeignKeys ==
    { [child |-> "Projects", col |-> "LeadID", parent |-> "Leads"],
      [child |-> "DailyUpdates", col |-> "ProjectID", parent |-> "Projects"] }

\* Neither connect() is followed by PRAGMA foreign_keys = ON, so the engine
\* keeps its default and checks no foreign key.
ForeignKeysEnforced == FALSE

\* ------------------------------------------------------------------ engine
\* A database: the tables of the file, their rows, and whether an open
\* transaction of some connection holds its write lock. rows is kept total
\* over TableNames; a table that does not exist has none.
Database(tabs, rws, lck) == [tables |-> tabs, rows |-> rws, locked |-> lck]

\* SQLite compares identifiers without regard to case. The names the model
\* passes are the five tables', "leads" and "Customers".
FoldCase(name) ==
    CASE name \in {"Leads", "leads"} -> "leads"
      [] name = "Projects" -> "projects"
      [] name = "DailyUpdates" -> "dailyupdates"
      [] name = "Equipment" -> "equipment"
      [] name = "Vendors" -> "vendors"
      [] OTHER -> name

\* The tables of db the interpolated name denotes: one, or none.
ResolveTable(db, name) == {t \in db.tables : FoldCase(t) = FoldCase(name)}

\* The texts of the model's values that SQLite reads as an integer.
IntegerTexts == {"7"}
\* ... and as a number with a fraction.
DecimalTexts == {"1.5", "7.0"}

\* The value a column of the given affinity stores for a bound parameter.
ApplyAffinity(col, val) ==
    IF val.ty = "null" THEN NULL
    ELSE IF Affinity(col) = "TEXT"
         THEN PyStr(val.v)
         ELSE IF val.ty = "real" THEN val
         ELSE IF val.v \in IntegerTexts THEN PyFloat(val.v \o ".0")
         ELSE IF val.v \in DecimalTexts THEN PyFloat(val.v)
         ELSE val

\* data is a set of <<column, value>> pairs: the dict insert_row is given.
Keys(data) == {p[1] : p \in data}
DataValue(data, col) == (CHOOSE p \in data : p[1] = col)[2]

\* The row INSERT INTO t (columns) VALUES (params) stores: the named columns
\* after affinity, NULL in the others.
StoredRowDropsLast(t, data) ==
    [c \in ColumnSet(t) |->
        IF c \in Keys(data) /\ c # Columns(t)[Len(Columns(t))]
        THEN ApplyAffinity(c, DataValue(data, c))
        ELSE NULL]
StoredRow(t, data) ==
    [c \in ColumnSet(t) |->
        IF c \in Keys(data) THEN ApplyAffinity(c, DataValue(data, c)) ELSE NULL]

KeysOf(t, rws) == {rws[t][i][PrimaryKey(t)] : i \in 1..Len(rws[t])}

\* PRIMARY KEY on a TEXT column of an ordinary table: unique among non-NULL
\* values; SQLite lets NULL through.
PrimaryKeyViolated(t, rws, row) ==
    /\ row[PrimaryKey(t)] # NULL
    /\ row[PrimaryKey(t)] \in KeysOf(t, rws)

\* With enforcement on, a child row must name an existing parent (or NULL).
ParentMissing(t, rws, row) ==
    \E fk \in ForeignKeys :
        /\ fk.child = t
        /\ row[fk.col] # NULL
        /\ row[fk.col] \notin KeysOf(fk.parent, rws)

\* With enforcement on, a parent table with referenced rows cannot be emptied.
ChildrenReference(t, rws) ==
    \E fk \in ForeignKeys :
        /\ fk.parent = t
        /\ \E i \in 1..Len(rws[fk.child]) :
              /\ rws[fk.child][i][fk.col] # NULL
              /\ rws[fk.child][i][fk.col] \in KeysOf(t, rws)

\* What one statement does. A statement that cannot be prepared (a syntax
\* error, an unknown table or column) or cannot get the write lock raises
\* OperationalError; one that breaks a constraint raises IntegrityError after
\* the module has begun a transaction, which stays open, with its lock,
\* for as long as the connection does (holds).
Failed(db, error, holds) ==
    [error |-> error, db |-> db, result |-> <<>>, holds |-> holds]
Done(db, result) ==
    [error |-> "ok", db |-> db, result |-> result, holds |-> FALSE]

\* INSERT OR REPLACE: a row with the same key is removed first.
SqlInsertOrReplace(db, name, data) ==
    LET ts == ResolveTable(db, name) IN
    IF data = {} \/ ts = {} THEN Failed(db, "OperationalError", FALSE)
    ELSE LET t == CHOOSE x \in ts : TRUE
             row == StoredRow(t, data)
             kept == SelectSeq(db.rows[t],
                               LAMBDA r : r[PrimaryKey(t)] = NULL
                                          \/ r[PrimaryKey(t)] # row[PrimaryKey(t)]) IN
         IF ~(Keys(data) \subseteq ColumnSet(t)) \/ db.locked
         THEN Failed(db, "OperationalError", FALSE)
         ELSE Done([db EXCEPT !.rows[t] = Append(kept, row)], <<>>)
SqlInsert(db, name, data) ==
    LET ts == ResolveTable(db, name) IN
    IF data = {} \/ ts = {} THEN Failed(db, "OperationalError", FALSE)
    ELSE LET t == CHOOSE x \in ts : TRUE
             row == StoredRow(t, data) IN
         IF ~(Keys(data) \subseteq ColumnSet(t)) \/ db.locked
         THEN Failed(db, "OperationalError", FALSE)
         ELSE IF \/ PrimaryKeyViolated(t, db.rows, row)
                 \/ (ForeignKeysEnforced /\ ParentMissing(t, db.rows, row))
         THEN Failed(db, "IntegrityError", TRUE)
         ELSE Done([db EXCEPT !.rows[t] = Append(@, row)], <<>>)

\* A SELECT reads beside another connection's uncommitted transaction.
SqlSelect(db, name) ==
    LET ts == ResolveTable(db, name) IN
    IF ts = {} THEN Failed(db, "OperationalError", FALSE)
    ELSE Done(db, db.rows[CHOOSE x \in ts : TRUE])

SqlDelete(db, name) ==
    LET ts == ResolveTable(db, name) IN
    IF ts = {} \/ db.locked THEN Failed(db, "OperationalError", FALSE)
    ELSE LET t == CHOOSE x \in ts : TRUE IN
         IF ForeignKeysEnforced /\ ChildrenReference(t, db.rows)
         THEN Failed(db, "IntegrityError", TRUE)
         ELSE Done([db EXCEPT !.rows[t] = <<>>], <<>>)

\* CREATE TABLE IF NOT EXISTS t: nothing when t exists, else t with no rows.
CreateTableDropFirst(db, t) ==
    Database(db.tables \cup {t}, [db.rows EXCEPT ![t] = <<>>], db.locked)
CreateTableIfNotExists(db, t) ==
    IF t \in db.tables THEN db
    ELSE Database(db.tables \cup {t}, [db.rows EXCEPT ![t] = <<>>], db.locked)

SqlExecute(db, query) ==
    CASE query.verb = "INSERT" -> SqlInsert(db, query.table, query.data)
      [] query.verb = "SELECT" -> SqlSelect(db, query.table)
      [] query.verb = "DELETE" -> SqlDelete(db, query.table)

\* ------------------------------------------------------------------ helpers
\* What a call did: the database after it, whether it returned ("ok") or
\* what it raised, what it returned, the connections it opened, the
\* statements it ran, and the connections it opened and did not close.
Outcome(db, status, result, conns, stmts, unclosed) ==
    [db |-> db, status |-> status, result |-> result,
     conns |-> conns, stmts |-> stmts, unclosed |-> unclosed]

\* initialize_db: one connection, the five CREATE TABLE IF NOT EXISTS in the
\* dict's order, commit, close.
RECURSIVE CreateTables(_, _)
CreateTables(db, i) ==
    IF i > Len(TableOrder) THEN db
    ELSE CreateTables(CreateTableIfNotExists(db, TableOrder[i]), i + 1)

initialize_db(db) ==
    Outcome(CreateTables(db, 1), "ok", <<>>, 1, Len(TableOrder), 0)

\* execute_query: connect, execute, then either fetchall and close, which
\* commits nothing, or commit and close. An exception from execute leaves
\* the function before either close: the connection stays open, and with it
\* the transaction a failed statement began.
execute_query(db, query, fetch) ==
    LET r == SqlExecute(db, query) IN
    IF r.error # "ok"
    THEN Outcome([db EXCEPT !.locked = @ \/ r.holds], r.error, <<>>, 1, 1, 1)
    ELSE IF fetch THEN Outcome(db, "ok", r.result, 1, 1, 0)
    ELSE Outcome(r.db, "ok", <<>>, 1, 1, 0)

\* insert_row: the INSERT built from the dict's keys, its values bound.
insert_row(db, table, data) ==
    execute_query(db, [verb |-> "INSERT", table |-> table, data |-> data], FALSE)

\* fetch_table_data: the SELECT through execute_query, then the same SELECT
\* again on a second connection, for the column names; that connection is
\* never closed.
fetch_table_data(db, table) ==
    LET query == [verb |-> "SELECT", table |-> table, data |-> {}]
        first == execute_query(db, query, TRUE) IN
    IF first.status # "ok" THEN first
    ELSE Outcome(first.db, "ok", first.result, first.conns + 1, first.stmts + 1,
                 first.unclosed + 1)

\* The DELETE data_management sends for a table.
delete_all(db, table) ==
    execute_query(db, [verb |-> "DELETE", table |-> table, data |-> {}], FALSE)

\* generate_unique_id: the first 8 characters of a uuid4; two calls can give
\* the same token. The model draws from two.
generate_unique_id == {PyStr("a"), PyStr("b")}

\* ------------------------------------------------------------------ state
NoCall ==
    [op |-> "none", name |-> "", data |-> {}, status |-> "ok", changed |-> FALSE,
     conns |-> 0, stmts |-> 0, unclosed |-> 0]

\* The record of a call made in the current state: its arguments, how it
\* ended, and whether it changed the database.
Call(op, name, data, out) ==
    [op |-> op, name |-> name, data |-> data, status |-> out.status,
     changed |-> (out.db.tables # tables \/ out.db.rows # rows),
     conns |-> out.conns, stmts |-> out.stmts, unclosed |-> out.unclosed]

IdleForm == [pc |-> "idle", lead_ids |-> <<>>]

TotalRows(rws) ==
    Len(rws["Leads"]) + Len(rws["Projects"]) + Len(rws["DailyUpdates"])
        + Len(rws["Equipment"]) + Len(rws["Vendors"])

\* The database in the current state.
Store == Database(tables, rows, locked)

\* The database file does not exist before the first run.
Init ==
    /\ tables = {}
    /\ rows = [t \in TableNames |-> <<>>]
    /\ locked = FALSE
    /\ last = NoCall
    /\ form = IdleForm

\* A call's effect on the shared state.
Commit(op, name, data, out) ==
    /\ TotalRows(out.db.rows) <= MaxRows
    /\ tables' = out.db.tables
    /\ rows' = out.db.rows
    /\ locked' = out.db.locked
    /\ last' = Call(op, name, data, out)

\* ------------------------------------------------------------------ inputs
\* The collection names callers pass: the five, one in another case, one
\* that names nothing.
Names == TableNames \cup {"leads", "Customers"}

\* The table whose columns a caller of that name fills in.
SchemaFor(name) ==
    CASE name = "leads" -> "Leads"
      [] name = "Customers" -> "Vendors"
      [] OTHER -> name

ReferenceColumns(t) == {fk.col : fk \in {f \in ForeignKeys : f.child = t}}

\* What the forms read from their widgets: text from text_input, date_input
\* and selectbox, a float from number_input.
WidgetValue(col) == IF Affinity(col) = "REAL" THEN PyFloat("1.5") ELSE PyStr("x")

\* A value of the wrong Python type for its column: a number for a TEXT
\* column, numeric text for a REAL one.
IllTypedValue(col) == IF Affinity(col) = "REAL" THEN PyStr("7") ELSE PyInt("7")

\* A mapping for table t: key (or none when omitted), reference, and the
\* other fields, well-typed ("well"), ill-typed ("ill"), or well-typed with
\* the last column left out ("short").
FieldMapping(t, key, ref, shape) ==
    LET cols == IF shape = "short"
                THEN ColumnSet(t) \ {Columns(t)[Len(Columns(t))]}
                ELSE ColumnSet(t) IN
    { <<c, IF c \in ReferenceColumns(t) THEN ref
           ELSE IF shape = "ill" THEN IllTypedValue(c) ELSE WidgetValue(c)>> :
        c \in cols \ {PrimaryKey(t)} }
      \cup (IF key = NULL THEN {} ELSE {<<PrimaryKey(t), key>>})

\* A reference to the record with id "a", and one to a record that never exists.
References == {PyStr("a"), PyStr("zz")}

\* The tables input_forms writes.
FormTables == {"Leads", "Projects"}

\* The mappings callers pass for table t. For a table with a form: complete
\* and well-typed ones, one ill-typed, one without its last field, one
\* without its id, the empty one, and one naming a column the table does
\* not have. For the others: one complete and well-typed.
FieldMappings(t) ==
    IF t \notin FormTables THEN { FieldMapping(t, PyStr("a"), PyStr("a"), "well") }
    ELSE
    { FieldMapping(t, PyStr("a"), ref, "well") : ref \in References }
      \cup { FieldMapping(t, PyStr("a"), PyStr("a"), shape) : shape \in {"ill", "short"} }
      \cup { FieldMapping(t, PyStr("b"), PyStr("a"), "well"),
              FieldMapping(t, NULL, PyStr("a"), "well"),
              {}, {<<"Notes", PyStr("x")>>} }

\* ------------------------------------------------------------------ the store's operations
Initialize ==
    /\ Commit("initialize", "", {}, initialize_db(Store))
    /\ UNCHANGED form

Insert(name, data) ==
    /\ Commit("insert", name, data, insert_row(Store, name, data))
    /\ UNCHANGED form

FetchAll(name) ==
    /\ Commit("fetchAll", name, {}, fetch_table_data(Store, name))
    /\ UNCHANGED form

DeleteAll(name) ==
    /\ Commit("deleteAll", name, {}, delete_all(Store, name))
    /\ UNCHANGED form

\* The interpreter finalizes a connection that was left open, at a time of
\* its choosing: the transaction is rolled back and its lock released.
Finalize ==
    /\ locked
    /\ locked' = FALSE
    /\ UNCHANGED <<tables, rows, last, form>>

Next ==
    \/ Initialize
    \/ \E name \in Names : \E data \in FieldMappings(SchemaFor(name)) : Insert(name, data)
    \/ \E name \in Names : FetchAll(name)
    \/ \E name \in Names : DeleteAll(name)
    \/ Finalize

Spec == Init /\ [][Next]_vars

\* ------------------------------------------------------------------ the pages
\* One call after another in the same script run.
After(prev, out) ==
    Outcome(out.db, out.status, out.result, prev.conns + out.conns,
            prev.stmts + out.stmts, prev.unclosed + out.unclosed)

\* What the selectbox shows when Leads is empty.
Placeholder == PyStr("No Leads Available")

\* lead_ids: the LeadID column of the fetched frame, or the placeholder alone.
LeadIds(result) ==
    IF result = <<>> THEN <<Placeholder>>
    ELSE [i \in 1..Len(result) |-> result[i]["LeadID"]]

\* lead_data / project_data: a generated id and the widgets' values.
lead_data(id) == FieldMapping("Leads", id, NULL, "well")
project_data(id, lead_id) == FieldMapping("Projects", id, lead_id, "well")

\* main, then dashboard: the Projects table is fetched for the charts.
dashboard(db) ==
    LET init == initialize_db(db) IN
    After(init, fetch_table_data(init.db, "Projects"))

\* main, then the Leads tab of input_forms with "Save Lead" pressed or not,
\* then the Projects tab up to its widgets. An exception from insert_row ends
\* the run.
input_forms_render(db, button, id) ==
    LET init == initialize_db(db)
        saved == IF button = "Save Lead"
                 THEN After(init, insert_row(init.db, "Leads", lead_data(id)))
                 ELSE init IN
    IF saved.status # "ok" THEN saved
    ELSE After(saved, fetch_table_data(saved.db, "Leads"))

\* The Projects tab with "Save Project" pressed: the placeholder is refused,
\* anything else is inserted.
save_project_unguarded(db, data) ==
    insert_row(db, "Projects", data)
save_project(db, data) ==
    IF DataValue(data, "LeadID") = Placeholder
    THEN Outcome(db, "rejected", <<>>, 0, 0, 0)
    ELSE insert_row(db, "Projects", data)

\* main, then data_management: each table is fetched in turn; a table with
\* rows shows its buttons, and "Clear" on it deletes its rows. An exception
\* from the DELETE ends the run.
RECURSIVE data_management_from(_, _, _)
data_management_from(prev, i, button) ==
    IF i > Len(TableOrder) THEN prev
    ELSE LET table == TableOrder[i]
             df == After(prev, fetch_table_data(prev.db, table))
             cleared == After(df, delete_all(df.db, table)) IN
         IF df.result # <<>> /\ button = table
         THEN IF cleared.status # "ok" THEN cleared
              ELSE data_management_from(cleared, i + 1, button)
         ELSE data_management_from(df, i + 1, button)

data_management(db, button) ==
    data_management_from(initialize_db(db), 1, button)

\* ------------------------------------------------------------------ script runs
Dashboard ==
    /\ Commit("dashboard", "Projects", {}, dashboard(Store))
    /\ UNCHANGED form

\* A run of the Input Forms page in which "Save Project" was not pressed.
InputForms(button, id) ==
    /\ form.pc = "idle"
    /\ Commit("input_forms", button, IF button = "Save Lead" THEN lead_data(id) ELSE {},
              input_forms_render(Store, button, id))
    /\ UNCHANGED form

\* A run in which "Save Project" was pressed, up to the rendering of the
\* Projects tab's widgets...
InputFormsRender ==
    /\ form.pc = "idle"
    /\ LET out == input_forms_render(Store, "Save Project", NULL) IN
         /\ Commit("render", "Leads", {}, out)
         /\ form' = [pc |-> "rendered", lead_ids |-> LeadIds(out.result)]

\* ... and from there: the selectbox holds the i-th of the options rendered.
InputFormsSave(i, id) ==
    /\ form.pc = "rendered"
    /\ LET data == project_data(id, form.lead_ids[i]) IN
         Commit("save_project", "Projects", data,
                save_project(Store, data))
    /\ form' = IdleForm

\* A run of the Data Management page, by this session or another.
DataManagement(button) ==
    /\ Commit("data_management", button, {},
              data_management(Store, button))
    /\ UNCHANGED form

NextApp ==
    \/ Dashboard
    \/ \E button \in {"none", "Save Lead"} : \E id \in generate_unique_id :
          InputForms(button, id)
    \/ InputFormsRender
    \/ \E i \in 1..Len(form.lead_ids) : \E id \in generate_unique_id :
          InputFormsSave(i, id)
    \/ \E button \in TableNames \cup {"none"} : DataManagement(button)
    \/ Finalize

SpecApp == Init /\ [][NextApp]_vars

\* ------------------------------------------------------------------ properties
\* All five schemas exist.
Initialized == tables = TableNames

\* What fetchAll(t) returns in the current state.
FetchNow(t) == fetch_table_data(Store, t)
\* ... and in the state a step leads to.
FetchNext(t) == fetch_table_data(Database(tables', rows', locked'), t)

\* Python's ==: equal values, or numbers of equal value (7 == 7.0).
NumberText(val) == IF val.ty = "int" THEN val.v \o ".0" ELSE val.v
PyEquals(a, b) ==
    \/ a = b
    \/ /\ a.ty \in {"int", "real"}
       /\ b.ty \in {"int", "real"}
       /\ NumberText(a) = NumberText(b)

\* data has every field of t / a str for each TEXT field, a float for each REAL one.
Complete(t, data) == Keys(data) = ColumnSet(t)
WellTyped(t, data) ==
    \A p \in data : p[2].ty = (IF Affinity(p[1]) = "REAL" THEN "real" ELSE "text")

RecordEquals(row, t, data) ==
    /\ Complete(t, data)
    /\ \A c \in ColumnSet(t) : PyEquals(row[c], DataValue(data, c))

\* How many records of fetchAll(t) equal data.
CountIn(result, t, data) ==
    Cardinality({i \in 1..Len(result) : RecordEquals(result[i], t, data)})
CountEqual(t, data) == CountIn(FetchNow(t).result, t, data)

StoreOps == {"initialize", "insert", "fetchAll", "deleteAll"}

\* C1, as stated: on an initialized store, after insert(c, m) with m a valid
\* mapping (all of c's fields, each of its field's type), fetchAll(c) holds
\* exactly one record equal to m, whatever c held before.
C1_AsStated ==
    (/\ last.op = "insert"
     /\ last.name \in TableNames
     /\ Initialized
     /\ Complete(last.name, last.data)
     /\ WellTyped(last.name, last.data))
    => (FetchNow(last.name).status = "ok" /\ CountEqual(last.name, last.data) = 1)

\* C1, amended: on an initialized store, insert(c, m) with m having all of c's
\* fields, each a str for a TEXT field and a float for a REAL field, either
\* raises and leaves every collection as it was, as it does when a record of
\* c already has m's id, or returns, and fetchAll(c) then holds exactly one
\* record equal to m.
C1_InsertThenFetch ==
    [][(/\ last'.op = "insert"
        /\ last'.name \in TableNames
        /\ Initialized
        /\ Complete(last'.name, last'.data)
        /\ WellTyped(last'.name, last'.data))
       => (/\ last'.status # "ok" => rows' = rows
           /\ last'.status = "ok"
                => (/\ FetchNext(last'.name).status = "ok"
                    /\ CountIn(FetchNext(last'.name).result, last'.name, last'.data) = 1)
           /\ DataValue(last'.data, PrimaryKey(last'.name)) \in KeysOf(last'.name, rows)
                => last'.status # "ok")]_vars

\* C1's case: a complete, well-typed insert into a collection that already
\* held a record.
C1_Witness ==
    /\ last.op = "insert"
    /\ last.status = "ok"
    /\ last.name \in TableNames
    /\ Complete(last.name, last.data)
    /\ WellTyped(last.name, last.data)
    /\ Len(rows[last.name]) = 2
    /\ CountEqual(last.name, last.data) = 1

\* C2: insert(c, m) with m omitting a field of c fails and leaves the store
\* as it was.
C2_MissingFieldFails ==
    (/\ last.op = "insert"
     /\ last.name \in TableNames
     /\ Initialized
     /\ ~(ColumnSet(last.name) \subseteq Keys(last.data)))
    => (last.status # "ok" /\ ~last.changed)

\* C3: deleteAll(c) on a collection of the store succeeds, whatever c held,
\* and fetchAll(c) then returns the empty sequence.
C3_DeleteAllEmpties ==
    (/\ last.op = "deleteAll"
     /\ last.name \in TableNames
     /\ last.name \in tables)
    => (/\ last.status = "ok"
        /\ FetchNow(last.name).status = "ok"
        /\ FetchNow(last.name).result = <<>>)

\* C4: no two records of a collection have the same id, and an insert whose
\* id is already in the collection fails and leaves it unchanged.
UniqueIds(rws) ==
    \A t \in TableNames : \A i, j \in 1..Len(rws[t]) :
        i # j => rws[t][i][PrimaryKey(t)] # rws[t][j][PrimaryKey(t)]

C4_IdsUnique ==
    [][/\ UniqueIds(rows')
       /\ (/\ last'.op = "insert"
           /\ last'.name \in TableNames
           /\ PrimaryKey(last'.name) \in Keys(last'.data)
           /\ Keys(last'.data) \subseteq ColumnSet(last'.name)
           /\ StoredRow(last'.name, last'.data)[PrimaryKey(last'.name)]
                 \in KeysOf(last'.name, rows))
          => (last'.status # "ok" /\ rows' = rows)]_vars

\* C5: references are not enforced. On an initialized store an insert into
\* Projects or DailyUpdates that names known columns, the reference among
\* them, and no id the collection already holds, succeeds whatever it refers
\* to, and fetchAll returns that record last, with the reference as given;
\* and deleteAll of Leads or Projects succeeds and changes no other collection.
C5_SoftReferences ==
    [][/\ \A fk \in ForeignKeys :
            (/\ last'.op = "insert"
             /\ last'.name = fk.child
             /\ Initialized
             /\ fk.col \in Keys(last'.data)
             /\ Keys(last'.data) \subseteq ColumnSet(fk.child)
             /\ \/ PrimaryKey(fk.child) \notin Keys(last'.data)
                \/ DataValue(last'.data, PrimaryKey(fk.child)) \notin KeysOf(fk.child, rows))
            => (/\ last'.status = "ok"
                /\ FetchNext(fk.child).status = "ok"
                /\ Len(FetchNext(fk.child).result) = Len(rows[fk.child]) + 1
                /\ LET r == FetchNext(fk.child).result[Len(rows[fk.child]) + 1] IN
                     /\ PrimaryKey(fk.child) \in Keys(last'.data)
                          => r[PrimaryKey(fk.child)]
                               = DataValue(last'.data, PrimaryKey(fk.child))
                     /\ r[fk.col] = DataValue(last'.data, fk.col))
       /\ \A fk \in ForeignKeys :
            (/\ last'.op = "deleteAll"
             /\ last'.name = fk.parent
             /\ Initialized)
            => (/\ last'.status = "ok"
                /\ rows'[fk.parent] = <<>>
                /\ \A t \in TableNames \ {fk.parent} : rows'[t] = rows[t])]_vars

\* C6: initialize() succeeds, leaves all five collections existing, and
\* leaves every collection's records as they were: none on a fresh store.
C6_InitializeIdempotent ==
    [][last'.op = "initialize"
       => (/\ last'.status = "ok"
           /\ tables' = TableNames
           /\ \A t \in TableNames :
                /\ FetchNext(t).status = "ok"
                /\ FetchNext(t).result = rows[t]
                /\ (tables = {} => FetchNext(t).result = <<>>))]_vars

\* C6's case: initialize() was called on a store that holds records.
C6_Witness ==
    /\ last.op = "initialize"
    /\ ~last.changed
    /\ TotalRows(rows) > 0

\* C7: a collection's records change in two ways only: an insert into it
\* adds one record after those it holds, which stay as they are, and a
\* deleteAll of it removes them all. No other call changes them, and none
\* but an insert adds a record.
C7_RecordsImmutable ==
    [][\A t \in TableNames :
          \/ rows'[t] = rows[t]
          \/ /\ last'.op = "insert"
             /\ FoldCase(last'.name) = FoldCase(t)
             /\ Len(rows'[t]) = Len(rows[t]) + 1
             /\ SubSeq(rows'[t], 1, Len(rows[t])) = rows[t]
          \/ /\ last'.op = "deleteAll"
             /\ FoldCase(last'.name) = FoldCase(t)
             /\ rows'[t] = <<>>]_vars

\* C7's case: a record outlived a deleteAll of another collection.
C7_Witness ==
    /\ last.op = "deleteAll"
    /\ last.name = "Projects"
    /\ last.changed
    /\ rows["Leads"] # <<>>

\* C8: insert, fetchAll and deleteAll with a name that is none of the five
\* fail and change nothing.
C8_UnknownNameFails ==
    (last.op \in {"insert", "fetchAll", "deleteAll"} /\ last.name \notin TableNames)
    => (last.status # "ok" /\ ~last.changed)

\* C9: every store operation opens one connection, runs its statement once
\* (initialize: its five CREATE statements, once each), and has closed what
\* it opened when it returns or raises.
C9_OneConnectionOneStatement ==
    last.op \in StoreOps
    => (/\ last.conns = 1
        /\ last.stmts = (IF last.op = "initialize" THEN Len(TableOrder) ELSE 1)
        /\ last.unclosed = 0)

\* C10: the form's lead_ids are the ids of the Leads fetched when it was
\* rendered, or the placeholder alone when there were none; "Save Project"
\* on the placeholder is refused and changes nothing; and a Project the form
\* inserts carries one of the ids rendered, never the placeholder.
C10_NoPlaceholderProject ==
    [][/\ (form.pc = "idle" /\ form'.pc = "rendered")
          => /\ (rows'["Leads"] = <<>>) = (form'.lead_ids = <<Placeholder>>)
             /\ rows'["Leads"] # <<>>
                  => form'.lead_ids =
                       [i \in 1..Len(rows'["Leads"]) |-> rows'["Leads"][i]["LeadID"]]
       /\ (form.pc = "rendered" /\ form'.pc = "idle")
          => /\ form.lead_ids = <<Placeholder>>
                  => (last'.status = "rejected" /\ rows' = rows)
             /\ rows' # rows
                  => /\ \A t \in TableNames \ {"Projects"} : rows'[t] = rows[t]
                     /\ Len(rows'["Projects"]) = Len(rows["Projects"]) + 1
                     /\ SubSeq(rows'["Projects"], 1, Len(rows["Projects"])) = rows["Projects"]
                     /\ LET r == rows'["Projects"][Len(rows'["Projects"])] IN
                          /\ r["LeadID"] # Placeholder
                          /\ \E i \in 1..Len(form.lead_ids) : form.lead_ids[i] = r["LeadID"]]_vars

\* C10's case: "Save Project" was pressed on a form rendered with no Leads.
C10_Witness ==
    /\ last.op = "save_project"
    /\ last.status = "rejected"
    /\ DataValue(last.data, "LeadID") = Placeholder
    /\ rows["Projects"] = <<>>

====
